---- MODULE Spec2Model ----
(***************************************************************************)
(* Model of the signal-driven execution engine of ETHSight / SignalFlow:   *)
(*   - UniswapTrader (the on-chain swap executor),                         *)
(*   - the spot trade simulation of plot_with_indicators,                  *)
(*   - the LiveTradeResults event-stream client and the live session it    *)
(*     listens to.                                                         *)
(* Each subsystem has its own specification (SwapSpec, SimSpec, LiveSpec); *)
(* the variables of the other subsystems keep their initial values.        *)
(***************************************************************************)
EXTENDS Integers, Sequences, FiniteSets, TLC

VARIABLES
    \* ---- UniswapTrader ----
    swPc,            \* position inside the running swap call ("idle" between calls)
    swDir,           \* "eth2tok" (swapExactEthForTokens) or "tok2eth" (swapExactTokensForEth)
    swToken,         \* tokenAddress argument
    swAmountWei,     \* amountEthWei / amountTokensWei
    swSlippage,      \* slippage argument, in hundredths of a percent
    swDecimals,      \* const decimals, NoValue before getTokenDecimals returned
    swAllowance,     \* const allowance (value read), NoValue before the read
    swQuote,         \* amountsOut[1], NoValue before the quote
    swMinOut,        \* minAmountOut, NoValue before it is computed
    swSentMinOut,    \* amountOutMin argument of the submitted swap transaction
    swOutcome,       \* "none" while running, "returned" or "thrown" once settled
    swTrace,         \* external calls made by the running call, in order
    swCalls,         \* number of swap calls started so far
    chainAllowance,  \* on-chain ERC-20 allowance of the router, per token
    chainDecimals,   \* what each token contract's decimals() returns
    tokenDecimals,   \* this.tokenDecimals
    now,             \* Math.floor(Date.now() / 1000), counted from the instant the
                     \* running call computes its deadline (0 until then)
    swDeadline,      \* const deadline, NoValue before it is computed
    swSentDeadline,  \* deadline argument of the submitted swap transaction
    swSubmitTime,    \* the time at which the swap transaction was submitted
    swPairExists,    \* what `await this.checkPairExists(...)` gave the running call
    swApproved,      \* amount argument of the approve the running call submitted
    \* ---- plot_with_indicators, the spot trade simulation of one signal column ----
    df,                  \* the bars, in the order given: [datetime, close, sig]
    dtype,               \* dtype of the signal column: "int" or "bool"
    simPc,               \* position inside the function
    all_signals,         \* the signals to replay, sorted by datetime
    k,                   \* index of the next signal of the running loop
    in_position,
    entry_price,
    valid_buy_signals,
    valid_sell_signals,
    stats,               \* total_trades, profitable_trades, win_rate, returns, ...
    current_value,       \* account value, a fraction [num, den]
    pnl_data,            \* (time, current_value, profit_pct * 100) per closed trade
    accepted,            \* history: the signal types the running loop accepted, in order
    tradeLog,            \* history: entry and exit stored by the first loop at each sell
    columns,             \* which of the requested indicator columns df has
    raised,              \* the exception that ended the run, NoError while none has
    cumulative_pnl,      \* df['cumulative_pnl'], row by row (empty before it is set)
    run,                 \* 1 for the first run on the input, 2 for the run that repeats it
    firstRun,            \* what the first run produced, NoRun until it is over
    sortResult,          \* the frame sort_values was last given, and what it returned
    \* ---- the live session behind GET /strategy/trade/{id} ----
    sessState,       \* "waiting", "initializing", "ready", "stopped"
    tickInFlight,    \* a polling tick has emitted `processing` and not finished
    stopFlag,        \* a stop request has been accepted
    ticks,           \* polling ticks started
    initSent,        \* `initializing` events sent
    sessPrice,       \* close of the last bar processed
    sessPosition,    \* 0 (flat) or 1 (long)
    sessEntry,       \* entry price of the open position
    sessPnl,         \* cumulative PnL of the closed trades
    sessTrades,      \* number of closed trades (the statistics)
    sessLog,         \* history: events emitted and stop requests accepted, in order
    sseQueue,        \* events on their way to the EventSource
    \* ---- LiveTradeResults ----
    esState,             \* the EventSource: "connecting", "open", "closed"
    esRef,               \* eventSourceRef.current is set
    isStoppingManually,  \* isStoppingManuallyRef.current
    isStopped,
    isInitialized,
    isProcessing,
    error,
    currentPrice,
    currentPosition,
    totalPnl,
    tradingStats,
    plotData,            \* "none" or the figure of the last event that carried one
    stopPc,              \* position inside handleStop
    stopResponse,        \* what `await stopTrade(...)` gave handleStop ("none" outside it)
    onStopCalls,         \* times the onStop callback ran
    \* ---- the connection effect of LiveTradeResults (useEffect on strategy_id) ----
    component,           \* which LiveTradeResults this is: "part_008" or "part_009"
    fxPhase,             \* "commit": the effect is due to run; "idle": it has run;
                         \* "unmounted": the component is gone
    fxRuns,              \* times the effect has run
    strategyId,          \* strategy.strategy_id of the current props (0: none)
    hasRunOnce,          \* hasRunOnce.current (part_008)
    isConnecting,        \* isConnectingRef.current (part_009)
    currentStrategyId,   \* currentStrategyIdRef.current (part_009), 0 for null
    eventSourceRef,      \* eventSourceRef.current: index into streams, 0 for null
    fxStream,            \* the stream the effect that last ran created, 0 if none
    streams              \* the EventSource objects created so far

swapVars == << swPc, swDir, swToken, swAmountWei, swSlippage, swDecimals, swAllowance, swQuote,
               swMinOut, swSentMinOut, swOutcome, swTrace, swCalls, chainAllowance,
               chainDecimals, tokenDecimals, now, swDeadline, swSentDeadline,
               swSubmitTime, swPairExists, swApproved >>

simVars == << df, dtype, simPc, all_signals, k, in_position, entry_price,
              valid_buy_signals, valid_sell_signals, stats, current_value, pnl_data,
              accepted, tradeLog, columns, raised, cumulative_pnl, run, firstRun,
              sortResult >>

sessVars == << sessState, tickInFlight, stopFlag, ticks, initSent, sessPrice,
               sessPosition, sessEntry, sessPnl, sessTrades, sessLog, sseQueue >>

clientVars == << esState, esRef, isStoppingManually, isStopped, isInitialized,
                 isProcessing, error, currentPrice, currentPosition, totalPnl,
                 tradingStats, plotData, stopPc, stopResponse, onStopCalls >>

liveVars == << sessVars, clientVars >>

fxVars == << component, fxPhase, fxRuns, strategyId, hasRunOnce, isConnecting,
             currentStrategyId, eventSourceRef, fxStream, streams >>

vars == << swapVars, simVars, liveVars, fxVars >>

\* what the steps of one subsystem leave alone
notSwapVars == << simVars, liveVars, fxVars >>
notSimVars == << swapVars, liveVars, fxVars >>
notLiveVars == << swapVars, simVars, fxVars >>
notFxVars == << swapVars, simVars, liveVars >>

(***************************************************************************)
(* Bounds                                                                  *)
(***************************************************************************)
MaxAmount == 2
MaxCalls == 2
MaxClock == 1
MaxBars == 4
MaxPrice == 2
MaxTicks == 2
MaxInitEvents == 1
MaxQueue == 1
MaxRerunBars == 3
MaxEffectRuns == 3

\* stands for a local that has not been assigned yet (no amount is negative)
NoValue == 0 - 1

(***************************************************************************)
(* UniswapTrader                                                           *)
(***************************************************************************)
Tokens == {"USDC", "TKN"}
Directions == {"eth2tok", "tok2eth"}

\* slippage values in hundredths of a percent: 0%, 0.05%, 0.5% (the default)
Slippages == {0, 5, 50}
DefaultSlippage == 50

\* amountsOut[1] values a quote can return
Quotes == {0, 1, 100, 1999}

\* values a decimals() call can return
DecimalValues == {0, 6, 18}
UsdcDecimals == 6
DefaultDecimals == 18

Thousand == 1000

\* the fixed window of the deadline, in seconds (5 minutes)
DeadlineWindow == 300

\* Math.floor((1 - slippage / 100) * 1000). With the slippage in hundredths of a
\* percent, (1 - slippage / 100) * 1000 is (10000 - bp) / 10; for the values of
\* Slippages the double-precision product has the same floor.
SlippageFactor(bp) == (10000 - bp) \div 10

\* variant: one truncation of the exact product instead of the per-mille factor
MinAmountOutExact(q, bp) == (q * (10000 - bp)) \div 10000

\* amountsOut[1] * BigInt(factor) / BigInt(1000): BigInt division truncates
MinAmountOut(q, bp) == (q * SlippageFactor(bp)) \div Thousand

\* checkPairExists without its try/catch: a failing getPair reaches the caller
checkPairExistsNoCatch(r) ==
    CASE r = "zero" -> "false"
      [] r = "pair" -> "true"
      [] r = "error" -> "threw"

\* what the caller of checkPairExists gets: `return false` for the zero
\* address, `return true` otherwise, and `return false` from the catch block
checkPairExistsResult(r) ==
    CASE r = "zero" -> "false"
      [] r = "pair" -> "true"
      [] r = "error" -> "false"

\* variant: the pool address is compared with null instead of the zero address
checkPairExistsNullCompare(r) == r # "error"

\* checkPairExists: r is what factory.getPair did: it returned a pool address
\* ("pair"), returned the zero address ("zero"), or threw ("error")
checkPairExists(r) == checkPairExistsResult(r) = "true"

\* variant: a wait() that hands back the receipt whatever its status
WaitResolvesAnyReceipt(r) == r # "error"

\* await tx.wait(): r is what became of the transaction. wait() resolves with the
\* receipt of a successful transaction; it rejects (CALL_EXCEPTION) for a
\* reverted one and when the provider fails
WaitResolves(r) == r = "success"

PairAnswers == {"pair", "zero", "error"}
TxFates == {"success", "reverted", "error"}
CallFates == {"ok", "error"}

\* getTokenDecimals: the cached value is used only when it is truthy
CachedDecimals(cache, token) == cache[token] # NoValue /\ cache[token] # 0

\* variant: an approval is sent only when the router has no allowance at all
NeedsApprovalWhenZero(allowance, amount) == allowance = 0

\* allowance < amountTokensWei
NeedsApproval(allowance, amount) == allowance < amount

\* variant: the quote is taken right after the pool check, before the allowance
\* read and the approval
NextPcQuoteFirst(pc, dir, ok, needApprove) ==
    IF ~ok THEN "throw"
    ELSE CASE pc = "checkPair"     -> IF dir = "eth2tok" THEN "quote" ELSE "decimals"
           [] pc = "decimals"      -> "quote"
           [] pc = "quote"         -> IF dir = "eth2tok" THEN "swapSubmit" ELSE "allowance"
           [] pc = "allowance"     -> IF needApprove THEN "approveSubmit" ELSE "swapSubmit"
           [] pc = "approveSubmit" -> "approveWait"
           [] pc = "approveWait"   -> "swapSubmit"
           [] pc = "swapSubmit"    -> "swapWait"
           [] pc = "swapWait"      -> "return"

\* variant: the approval is sent but its confirmation is not awaited
NextPcNoApproveWait(pc, dir, ok, needApprove) ==
    IF ~ok THEN "throw"
    ELSE CASE pc = "checkPair"     -> IF dir = "eth2tok" THEN "quote" ELSE "decimals"
           [] pc = "decimals"      -> "allowance"
           [] pc = "allowance"     -> IF needApprove THEN "approveSubmit" ELSE "quote"
           [] pc = "approveSubmit" -> "quote"
           [] pc = "approveWait"   -> "quote"
           [] pc = "quote"         -> "swapSubmit"
           [] pc = "swapSubmit"    -> "swapWait"
           [] pc = "swapWait"      -> "return"

\* variant: a failed approval is logged and the swap goes on
NextPcIgnoreApproveFail(pc, dir, ok, needApprove) ==
    IF ~ok /\ pc \notin {"approveSubmit", "approveWait"} THEN "throw"
    ELSE CASE pc = "checkPair"     -> IF dir = "eth2tok" THEN "quote" ELSE "decimals"
           [] pc = "decimals"      -> "allowance"
           [] pc = "allowance"     -> IF needApprove THEN "approveSubmit" ELSE "quote"
           [] pc = "approveSubmit" -> IF ok THEN "approveWait" ELSE "quote"
           [] pc = "approveWait"   -> "quote"
           [] pc = "quote"         -> "swapSubmit"
           [] pc = "swapSubmit"    -> "swapWait"
           [] pc = "swapWait"      -> "return"

\* variant: the receipt is not awaited; the call returns once the swap is sent
NextPcNoSwapWait(pc, dir, ok, needApprove) ==
    IF ~ok THEN "throw"
    ELSE CASE pc = "checkPair"     -> IF dir = "eth2tok" THEN "quote" ELSE "decimals"
           [] pc = "decimals"      -> "allowance"
           [] pc = "allowance"     -> IF needApprove THEN "approveSubmit" ELSE "quote"
           [] pc = "approveSubmit" -> "approveWait"
           [] pc = "approveWait"   -> "quote"
           [] pc = "quote"         -> "swapSubmit"
           [] pc = "swapSubmit"    -> "return"
           [] pc = "swapWait"      -> "return"

\* Control flow of swapExactEthForTokens / swapExactTokensForEth: the step that
\* follows step pc, given whether pc succeeded (ok) and, after the allowance
\* read, whether an approval is needed. "throw" is the catch block rethrowing,
\* "return" is `return receipt`.
NextPc(pc, dir, ok, needApprove) ==
    IF ~ok THEN "throw"
    ELSE CASE pc = "checkPair"     -> IF dir = "eth2tok" THEN "quote" ELSE "decimals"
           [] pc = "decimals"      -> "allowance"
           [] pc = "allowance"     -> IF needApprove THEN "approveSubmit" ELSE "quote"
           [] pc = "approveSubmit" -> "approveWait"
           [] pc = "approveWait"   -> "quote"
           [] pc = "quote"         -> "swapSubmit"
           [] pc = "swapSubmit"    -> "swapWait"
           [] pc = "swapWait"      -> "return"

\* moving to step n: a throw or a return settles the call
Goto(n) ==
    /\ swPc' = IF n \in {"throw", "return"} THEN "done" ELSE n
    /\ swOutcome' = CASE n = "throw" -> "thrown"
                      [] n = "return" -> "returned"
                      [] OTHER -> "none"

Event(op, res) == [op |-> op, res |-> res]

\* the awaits since the deadline was computed took any time, up to the time
\* a call may take
Elapse == \E d \in 0 .. MaxClock : now + d <= MaxClock /\ now' = now + d

\* the deadline argument of the swap transaction: the const computed earlier
DeadlineArgument(computed, submitTime) == computed

SwapInit ==
    /\ swPc = "idle"
    /\ swDir = "eth2tok"
    /\ swToken = "USDC"
    /\ swAmountWei = NoValue
    /\ swSlippage = DefaultSlippage
    /\ swDecimals = NoValue
    /\ swAllowance = NoValue
    /\ swQuote = NoValue
    /\ swMinOut = NoValue
    /\ swSentMinOut = NoValue
    /\ swOutcome = "none"
    /\ swTrace = << >>
    /\ swCalls = 0
    /\ chainAllowance \in [Tokens -> 0 .. MaxAmount]
    /\ chainDecimals \in {f \in [Tokens -> DecimalValues] : f["USDC"] = UsdcDecimals}
    /\ tokenDecimals = [t \in Tokens |-> IF t = "USDC" THEN UsdcDecimals ELSE NoValue]
    /\ now = 0
    /\ swDeadline = NoValue
    /\ swSentDeadline = NoValue
    /\ swSubmitTime = NoValue
    /\ swPairExists = "unset"
    /\ swApproved = NoValue

\* a caller invokes one of the two swap functions
StartSwap ==
    /\ swPc = "idle"
    /\ swCalls < MaxCalls
    /\ \E d \in Directions, t \in Tokens, a \in 1 .. MaxAmount, s \in Slippages :
          /\ swDir' = d
          /\ swToken' = t
          /\ swAmountWei' = a
          /\ swSlippage' = s
    /\ swPc' = "checkPair"
    /\ swOutcome' = "none"
    /\ swDecimals' = NoValue
    /\ swAllowance' = NoValue
    /\ swQuote' = NoValue
    /\ swMinOut' = NoValue
    /\ swSentMinOut' = NoValue
    /\ swTrace' = << >>
    /\ swCalls' = swCalls + 1
    /\ UNCHANGED << chainAllowance, tokenDecimals, chainDecimals >>
    /\ swDeadline' = NoValue
    /\ swSentDeadline' = NoValue
    /\ swSubmitTime' = NoValue
    /\ swPairExists' = "unset"
    /\ swApproved' = NoValue
    /\ now' = 0
    /\ UNCHANGED notSwapVars

\* if (!await this.checkPairExists(...)) throw new Error("No liquidity pool ...")
CheckPair ==
    /\ swPc = "checkPair"
    /\ \E r \in PairAnswers :
          /\ swTrace' = Append(swTrace, Event("getPair", r))
          /\ swPairExists' = checkPairExistsResult(r)
          /\ Goto(NextPc("checkPair", swDir, checkPairExists(r), FALSE))
          \* swapExactEthForTokens computes the deadline right after the pool check
          /\ swDeadline' = IF swDir = "eth2tok" /\ checkPairExists(r)
                           THEN now + DeadlineWindow ELSE swDeadline
    /\ UNCHANGED now
    /\ UNCHANGED << swDir, swToken, swAmountWei, swSlippage, swDecimals, swAllowance, swQuote,
                    swMinOut, swSentMinOut, swCalls, chainAllowance, tokenDecimals, chainDecimals >>
    /\ UNCHANGED << swSentDeadline, swSubmitTime, swApproved >>
    /\ UNCHANGED notSwapVars

\* const decimals = await this.getTokenDecimals(tokenAddress): never throws
GetDecimals ==
    /\ swPc = "decimals"
    /\ \/ /\ CachedDecimals(tokenDecimals, swToken)
          /\ swDecimals' = tokenDecimals[swToken]
          /\ UNCHANGED << tokenDecimals, swTrace >>
       \/ /\ ~CachedDecimals(tokenDecimals, swToken)
          /\ tokenDecimals' = [tokenDecimals EXCEPT ![swToken] = chainDecimals[swToken]]
          /\ swDecimals' = chainDecimals[swToken]
          /\ swTrace' = Append(swTrace, Event("decimals", "ok"))
       \/ /\ ~CachedDecimals(tokenDecimals, swToken)
          /\ swDecimals' = DefaultDecimals
          /\ swTrace' = Append(swTrace, Event("decimals", "error"))
          /\ UNCHANGED tokenDecimals
    /\ Goto(NextPc("decimals", swDir, TRUE, FALSE))
    /\ UNCHANGED << swDir, swToken, swAmountWei, swSlippage, swAllowance, swQuote,
                    swMinOut, swSentMinOut, swCalls, chainAllowance, chainDecimals >>
    \* swapExactTokensForEth computes the deadline once the decimals are known
    /\ swDeadline' = now + DeadlineWindow
    /\ UNCHANGED now
    /\ UNCHANGED << swSentDeadline, swSubmitTime, swPairExists, swApproved >>
    /\ UNCHANGED notSwapVars

\* const allowance = await tokenContract.allowance(wallet, router)
ReadAllowance ==
    /\ swPc = "allowance"
    /\ \/ /\ swAllowance' = chainAllowance[swToken]
          /\ swTrace' = Append(swTrace, Event("allowance", "ok"))
          /\ Goto(NextPc("allowance", swDir, TRUE,
                         NeedsApproval(chainAllowance[swToken], swAmountWei)))
       \/ /\ swTrace' = Append(swTrace, Event("allowance", "error"))
          /\ Goto(NextPc("allowance", swDir, FALSE, FALSE))
          /\ UNCHANGED swAllowance
    /\ UNCHANGED << swDir, swToken, swAmountWei, swSlippage, swDecimals, swQuote, swMinOut,
                    swSentMinOut, swCalls, chainAllowance, tokenDecimals, chainDecimals >>
    /\ UNCHANGED << now, swDeadline, swSentDeadline, swSubmitTime, swPairExists, swApproved >>
    /\ UNCHANGED notSwapVars

\* const approveTx = await tokenContract.approve(router, amountTokensWei)
ApproveSubmit ==
    /\ swPc = "approveSubmit"
    /\ \E r \in CallFates :
          /\ swTrace' = Append(swTrace, Event("approve", r))
          /\ swApproved' = swAmountWei
          /\ Goto(NextPc("approveSubmit", swDir, r = "ok", FALSE))
    /\ UNCHANGED << swDir, swToken, swAmountWei, swSlippage, swDecimals, swAllowance, swQuote,
                    swMinOut, swSentMinOut, swCalls, chainAllowance, tokenDecimals, chainDecimals >>
    /\ UNCHANGED << now, swDeadline, swSentDeadline, swSubmitTime, swPairExists >>
    /\ UNCHANGED notSwapVars

\* await approveTx.wait(): rejects when the transaction reverted
ApproveWait ==
    /\ swPc = "approveWait"
    /\ \E r \in TxFates :
          /\ swTrace' = Append(swTrace, Event("approveWait", r))
          /\ chainAllowance' = IF r = "success"
                                THEN [chainAllowance EXCEPT ![swToken] = swApproved]
                                ELSE chainAllowance
          /\ Goto(NextPc("approveWait", swDir, WaitResolves(r), FALSE))
    /\ UNCHANGED << swDir, swToken, swAmountWei, swSlippage, swDecimals, swAllowance, swQuote,
                    swMinOut, swSentMinOut, swCalls, tokenDecimals, chainDecimals >>
    /\ UNCHANGED << now, swDeadline, swSentDeadline, swSubmitTime, swPairExists, swApproved >>
    /\ UNCHANGED notSwapVars

\* const amountsOut = await this.router.getAmountsOut(...); const minAmountOut = ...
GetAmountsOut ==
    /\ swPc = "quote"
    /\ \/ \E q \in Quotes :
             /\ swQuote' = q
             /\ swMinOut' = MinAmountOut(q, swSlippage)
             /\ swTrace' = Append(swTrace, Event("getAmountsOut", "ok"))
             /\ Goto(NextPc("quote", swDir, TRUE, FALSE))
       \/ /\ swTrace' = Append(swTrace, Event("getAmountsOut", "error"))
          /\ Goto(NextPc("quote", swDir, FALSE, FALSE))
          /\ UNCHANGED << swQuote, swMinOut >>
    /\ UNCHANGED << swDir, swToken, swAmountWei, swSlippage, swDecimals, swAllowance, swSentMinOut,
                    swCalls, chainAllowance, tokenDecimals, chainDecimals >>
    /\ UNCHANGED << now, swDeadline, swSentDeadline, swSubmitTime, swPairExists, swApproved >>
    /\ UNCHANGED notSwapVars

\* const tx = await this.router.swapExactETHForTokens / swapExactTokensForETH(...)
SwapSubmit ==
    /\ swPc = "swapSubmit"
    \* the transaction is built and sent at now', after the awaits since the
    \* deadline was computed
    /\ Elapse
    /\ swSubmitTime' = now'
    /\ UNCHANGED << swPairExists, swApproved >>
    /\ \E r \in CallFates :
          /\ swTrace' = Append(swTrace, Event("swap", r))
          /\ swSentMinOut' = IF r = "ok" THEN swMinOut ELSE swSentMinOut
          /\ swSentDeadline' = IF r = "ok" THEN DeadlineArgument(swDeadline, now')
                                            ELSE swSentDeadline
          /\ Goto(NextPc("swapSubmit", swDir, r = "ok", FALSE))
    /\ UNCHANGED << swDir, swToken, swAmountWei, swSlippage, swDecimals, swAllowance, swQuote,
                    swMinOut, swCalls, chainAllowance, tokenDecimals, chainDecimals >>
    /\ UNCHANGED swDeadline
    /\ UNCHANGED notSwapVars

\* const receipt = await tx.wait(); return receipt
SwapWait ==
    /\ swPc = "swapWait"
    /\ \E r \in TxFates :
          /\ swTrace' = Append(swTrace, Event("swapWait", r))
          /\ chainAllowance' =
                IF r = "success" /\ swDir = "tok2eth"
                THEN [chainAllowance EXCEPT ![swToken] = @ - swAmountWei]
                ELSE chainAllowance
          /\ Goto(NextPc("swapWait", swDir, WaitResolves(r), FALSE))
    /\ UNCHANGED << swDir, swToken, swAmountWei, swSlippage, swDecimals, swAllowance, swQuote,
                    swMinOut, swSentMinOut, swCalls, tokenDecimals, chainDecimals >>
    /\ UNCHANGED << now, swDeadline, swSentDeadline, swSubmitTime, swPairExists, swApproved >>
    /\ UNCHANGED notSwapVars

\* the caller has the outcome; the trader is free for the next call
SwapSettled ==
    /\ swPc = "done"
    /\ swPc' = "idle"
    /\ UNCHANGED << swDir, swToken, swAmountWei, swSlippage, swDecimals, swAllowance, swQuote,
                    swMinOut, swSentMinOut, swOutcome, swTrace, swCalls, chainAllowance,
                    tokenDecimals, chainDecimals >>
    /\ UNCHANGED << now, swDeadline, swSentDeadline, swSubmitTime, swPairExists, swApproved >>
    /\ UNCHANGED notSwapVars

SwapNext ==
    \/ StartSwap
    \/ CheckPair
    \/ GetDecimals
    \/ ReadAllowance
    \/ ApproveSubmit
    \/ ApproveWait
    \/ GetAmountsOut
    \/ SwapSubmit
    \/ SwapWait
    \/ SwapSettled


(***************************************************************************)
(* plot_with_indicators: the spot trade simulation                         *)
(***************************************************************************)
Hundred == 100
initial_investment == 1000

Prices == 1 .. MaxPrice
SigValues(t) == IF t = "bool" THEN {0, 1} ELSE {0 - 1, 0, 1}

\* the timestamps of the n bars the caller hands over: ascending, descending,
\* ascending with the first two bars swapped, or ascending with the first
\* two bars carrying the same timestamp
Orders(n) ==
    { [i \in 1 .. n |-> i],
      [i \in 1 .. n |-> n + 1 - i],
      [i \in 1 .. n |-> IF n >= 2 /\ i <= 2 THEN 3 - i ELSE i],
      [i \in 1 .. n |-> IF i = 1 THEN 1 ELSE i - 1] }

\* the series of n bars, one bar per timestamp, with times o, closes c, signals g
Series(n, o, c, g) == [i \in 1 .. n |-> [datetime |-> o[i], close |-> c[i], sig |-> g[i]]]

\* fractions stand for the floats of the source
Frac(n, d) == [num |-> n, den |-> d]
FracAdd(a, b) == Frac(a.num * b.den + b.num * a.den, a.den * b.den)
FracMul(a, b) == Frac(a.num * b.num, a.den * b.den)

RECURSIVE FracSum(_)
FracSum(seq) ==
    IF seq = << >> THEN Frac(0, 1) ELSE FracAdd(seq[1], FracSum(Tail(seq)))

\* buy_signals / sell_signals of the signal column (int and bool dtype)
RowsOf(type, t) ==
    LET want == IF type = "buy" THEN 1 ELSE 0 - 1
    IN  IF type = "sell" /\ t = "bool"
        THEN {}
        ELSE {[idx |-> i, datetime |-> df[i].datetime, close |-> df[i].close,
               signal_type |-> type] : i \in {j \in DOMAIN df : df[j].sig = want}}

\* sort_values('datetime'): the default quicksort is not stable, so rows with
\* equal times may come out in any order; the set of the possible results
RECURSIVE sort_values(_)
sort_values(rows) ==
    IF rows = {} THEN {<< >>}
    ELSE LET firsts == {r \in rows : \A q \in rows : r.datetime <= q.datetime}
         IN  UNION {{<< f >> \o rest : rest \in sort_values(rows \ {f})} : f \in firsts}

\* list.sort(key = time): stable, entries with equal times keep their order
RECURSIVE list_sort(_)
list_sort(seq) ==
    IF seq = << >> THEN << >>
    ELSE LET first == CHOOSE i \in DOMAIN seq :
                          /\ \A j \in DOMAIN seq : seq[i].datetime <= seq[j].datetime
                          /\ \A j \in 1 .. (i - 1) : seq[j].datetime # seq[i].datetime
         IN  << seq[first] >>
                \o list_sort([j \in 1 .. (Len(seq) - 1) |->
                                 IF j < first THEN seq[j] ELSE seq[j + 1]])

\* the (datetime, type, close) tuples appended for the rows of a frame
SignalTuples(rows, type) ==
    [i \in DOMAIN rows |-> [idx |-> rows[i].idx, datetime |-> rows[i].datetime,
                            close |-> rows[i].close, signal_type |-> type]]

\* variant: a buy signal is taken whether or not a position is open
AcceptBuyAlways(type, inpos) == type = "buy"

\* row['signal_type'] == 'buy' and not in_position
AcceptBuy(type, inpos) == type = "buy" /\ ~inpos

\* row['signal_type'] == 'sell' and in_position (the elif branch)
AcceptSell(type, inpos) == ~AcceptBuy(type, inpos) /\ type = "sell" /\ inpos

\* variant: the i-th return pairs the i-th buy with the sell before it
ReturnOfPrevSell(buys, sells, i) ==
    Frac((sells[IF i > 1 THEN i - 1 ELSE i].close - buys[i].close) * Hundred, buys[i].close)

\* (sell_price - buy_price) / buy_price * 100 for the i-th rows
ReturnOf(buys, sells, i) ==
    Frac((sells[i].close - buys[i].close) * Hundred, buys[i].close)

Min(a, b) == IF a < b THEN a ELSE b

\* sum(valid_sell_df['close'].values > valid_buy_df['close'].values[:len(valid_sell_df)])
profitable_trades(buys, sells) ==
    Cardinality({i \in DOMAIN sells : sells[i].close > buys[i].close})

NoStats == [computed |-> FALSE]

\* the indicator columns the caller asks for: the signal column and one more
indicators == << "signal", "rsi" >>

NoError == [kind |-> "none", names |-> << >>]
Raise(kind, names) == [kind |-> kind, names |-> names]

\* variant: only the first missing indicator is reported
missing_indicatorsFirstOnly(cols) ==
    LET all == SelectSeq(indicators, LAMBDA ind : ind \notin cols)
    IN  IF all = << >> THEN << >> ELSE << all[1] >>

\* missing_indicators = [ind for ind in indicators if ind not in df.columns]
missing_indicators(cols) == SelectSeq(indicators, LAMBDA ind : ind \notin cols)

\* prev_pnl.iloc[-1]['value'] of the rows of pnl_df with time <= current_time,
\* or last_pnl when there is none, for row i of df and the rows after it
RECURSIVE FillFrom(_, _)
FillFrom(i, last_pnl) ==
    IF i > Len(df) THEN << >>
    ELSE LET prev_pnl == {j \in DOMAIN pnl_data : pnl_data[j].time <= df[i].datetime}
             value == IF prev_pnl # {}
                      THEN pnl_data[CHOOSE j \in prev_pnl : \A m \in prev_pnl : m <= j].value
                      ELSE last_pnl
         IN  << value >> \o FillFrom(i + 1, value)

\* the trade log, the statistics and the equity curve of a run that is over
SimResult ==
    [raised |-> raised,
     valid_buy_signals |-> valid_buy_signals,
     valid_sell_signals |-> valid_sell_signals,
     tradeLog |-> tradeLog,
     stats |-> stats,
     pnl_data |-> pnl_data,
     cumulative_pnl |-> cumulative_pnl]

NoRun == [raised |-> Raise("not run", << >>)]

\* no frame has been sorted yet; sorting the empty frame gives the empty frame
NoSort == [rows |-> {}, sorted |-> << >>]

\* variant: a sort whose order of equal keys changes from call to call (a
\* randomised pivot)
sort_values_of_buildAnyOrder(known, rows) == sort_values(rows)

\* sort_values('datetime') as the installed numpy computes it: the quicksort
\* is not stable, but it is a function of its input, so a frame that was
\* sorted before comes out in the same order again
sort_values_of_build(known, rows) ==
    IF known.rows = rows THEN {known.sorted} ELSE sort_values(rows)

SimInit ==
    /\ dtype \in {"int", "bool"}
    /\ \E n \in 0 .. MaxBars :
          \E o \in Orders(n), c \in [1 .. n -> Prices], g \in [1 .. n -> SigValues(dtype)] :
              df = Series(n, o, c, g)
    /\ columns \in SUBSET {indicators[i] : i \in DOMAIN indicators}
    /\ raised = NoError
    /\ cumulative_pnl = << >>
    /\ simPc = "validate"
    /\ all_signals = << >>
    /\ k = 1
    /\ in_position = FALSE
    /\ entry_price = 0
    /\ valid_buy_signals = << >>
    /\ valid_sell_signals = << >>
    /\ stats = NoStats
    /\ current_value = Frac(initial_investment, 1)
    /\ pnl_data = << >>
    /\ accepted = << >>
    /\ tradeLog = << >>
    /\ run = 1
    /\ firstRun = NoRun
    /\ sortResult = NoSort

\* lines 34-37: the requested indicators that df lacks end the run with a
\* ValueError that names them all
ValidateIndicators ==
    /\ simPc = "validate"
    /\ IF missing_indicators(columns) # << >>
       THEN /\ simPc' = "error"
            /\ raised' = Raise("ValueError", missing_indicators(columns))
       ELSE /\ simPc' = "signals"
            /\ UNCHANGED raised
    /\ UNCHANGED << df, dtype, columns, all_signals, k, in_position, entry_price,
                    valid_buy_signals, valid_sell_signals, stats, current_value,
                    pnl_data, accepted, tradeLog, cumulative_pnl >>
    /\ UNCHANGED << run, firstRun, sortResult >>
    /\ UNCHANGED notSimVars

\* lines 155-185: split the column into buy and sell rows, concat, sort by time
CollectSignals ==
    /\ simPc = "signals"
    /\ all_signals' \in sort_values_of_build(sortResult,
                                            RowsOf("buy", dtype) \cup RowsOf("sell", dtype))
    /\ sortResult' = [rows |-> RowsOf("buy", dtype) \cup RowsOf("sell", dtype),
                      sorted |-> all_signals']
    /\ simPc' = "replay"
    /\ k' = 1
    /\ UNCHANGED << df, dtype, columns, in_position, entry_price, valid_buy_signals,
                    valid_sell_signals, stats, current_value, pnl_data, accepted,
                    tradeLog >>
    /\ UNCHANGED << raised, cumulative_pnl >>
    /\ UNCHANGED << run, firstRun >>
    /\ UNCHANGED notSimVars

\* lines 188-197: one iteration of the replay loop
ReplaySignal ==
    /\ simPc = "replay"
    /\ k <= Len(all_signals)
    /\ LET row == all_signals[k]
       IN  IF AcceptBuy(row.signal_type, in_position)
           THEN /\ valid_buy_signals' = Append(valid_buy_signals, row)
                /\ in_position' = TRUE
                /\ entry_price' = row.close
                /\ accepted' = Append(accepted, "buy")
                /\ UNCHANGED << valid_sell_signals, tradeLog >>
           ELSE IF AcceptSell(row.signal_type, in_position)
           THEN /\ valid_sell_signals' = Append(valid_sell_signals, row)
                /\ in_position' = FALSE
                /\ accepted' = Append(accepted, "sell")
                /\ tradeLog' = Append(tradeLog,
                                      [entry |-> entry_price, exit |-> row.close])
                /\ UNCHANGED << valid_buy_signals, entry_price >>
           ELSE UNCHANGED << valid_buy_signals, valid_sell_signals, in_position,
                             entry_price, accepted, tradeLog >>
    /\ k' = k + 1
    /\ UNCHANGED << df, dtype, columns, simPc, all_signals, stats, current_value, pnl_data >>
    /\ UNCHANGED << raised, cumulative_pnl >>
    /\ UNCHANGED << run, firstRun, sortResult >>
    /\ UNCHANGED notSimVars

\* lines 199-220: the markers. buy_df_offset['high'] of an empty frame (no
\* accepted buy) raises KeyError
PlaceMarkers ==
    /\ simPc = "replay"
    /\ k > Len(all_signals)
    /\ simPc' = IF valid_buy_signals = << >> THEN "error" ELSE "stats"
    /\ UNCHANGED << df, dtype, columns, all_signals, k, in_position, entry_price,
                    valid_buy_signals, valid_sell_signals, stats, current_value,
                    pnl_data, accepted, tradeLog >>
    /\ raised' = IF valid_buy_signals = << >> THEN Raise("KeyError", << "high" >>)
                                              ELSE raised
    /\ UNCHANGED cumulative_pnl
    /\ UNCHANGED << run, firstRun, sortResult >>
    /\ UNCHANGED notSimVars

\* lines 268-312: the statistics, and the setup of the PNL replay
ComputeStats ==
    /\ simPc = "stats"
    /\ IF valid_buy_signals # << >> /\ valid_sell_signals # << >>
       THEN LET total == Len(valid_sell_signals)
                profitable == profitable_trades(valid_buy_signals, valid_sell_signals)
                n == Min(Len(valid_buy_signals), Len(valid_sell_signals))
                rets == [i \in 1 .. n |->
                            ReturnOf(valid_buy_signals, valid_sell_signals, i)]
                sum == FracSum(rets)
            IN  /\ stats' = [computed |-> TRUE,
                             total_trades |-> total,
                             profitable_trades |-> profitable,
                             win_rate |-> IF total > 0
                                          THEN Frac(profitable * Hundred, total)
                                          ELSE Frac(0, 1),
                             returns |-> rets,
                             total_return |-> sum,
                             avg_return |-> IF n > 0 THEN Frac(sum.num, sum.den * n)
                                                     ELSE Frac(0, 1)]
                /\ all_signals' = list_sort(SignalTuples(valid_buy_signals, "buy")
                                            \o SignalTuples(valid_sell_signals, "sell"))
                /\ k' = 1
                /\ in_position' = FALSE
                /\ entry_price' = 0
                /\ current_value' = Frac(initial_investment, 1)
                /\ pnl_data' = << >>
                /\ accepted' = << >>
                /\ simPc' = "pnl"
       ELSE /\ simPc' = "done"
            /\ UNCHANGED << stats, all_signals, k, in_position, entry_price,
                            current_value, pnl_data, accepted >>
    /\ UNCHANGED << df, dtype, columns, valid_buy_signals, valid_sell_signals, tradeLog >>
    /\ UNCHANGED << raised, cumulative_pnl >>
    /\ UNCHANGED << run, firstRun, sortResult >>
    /\ UNCHANGED notSimVars

\* lines 315-325: one iteration of the PNL replay
ReplayPnl ==
    /\ simPc = "pnl"
    /\ k <= Len(all_signals)
    /\ LET sig == all_signals[k]
       IN  IF AcceptBuy(sig.signal_type, in_position)
           THEN /\ entry_price' = sig.close
                /\ in_position' = TRUE
                /\ accepted' = Append(accepted, "buy")
                /\ UNCHANGED << current_value, pnl_data >>
           ELSE IF AcceptSell(sig.signal_type, in_position)
           THEN LET profit_pct == Frac(sig.close - entry_price, entry_price)
                    value == FracMul(current_value,
                                     Frac(entry_price + (sig.close - entry_price),
                                          entry_price))
                IN  /\ current_value' = value
                    /\ pnl_data' = Append(pnl_data,
                                          [time |-> sig.datetime,
                                           value |-> value,
                                           profit |-> Frac(profit_pct.num * Hundred,
                                                           profit_pct.den)])
                    /\ in_position' = FALSE
                    /\ accepted' = Append(accepted, "sell")
                    /\ UNCHANGED entry_price
           ELSE UNCHANGED << entry_price, in_position, accepted, current_value,
                             pnl_data >>
    /\ k' = k + 1
    /\ UNCHANGED << df, dtype, columns, simPc, all_signals, valid_buy_signals,
                    valid_sell_signals, stats, tradeLog >>
    /\ UNCHANGED << raised, cumulative_pnl >>
    /\ UNCHANGED << run, firstRun, sortResult >>
    /\ UNCHANGED notSimVars

\* lines 328-346, after the PNL replay has run out of signals: every row of df,
\* in the order of df, gets the value of the last closed trade that is not
\* later than the row; last_pnl is carried from one row to the next
FinishPnl ==
    /\ simPc = "pnl"
    /\ k > Len(all_signals)
    /\ cumulative_pnl' = IF pnl_data # << >>
                         THEN FillFrom(1, Frac(1000, 1))
                         ELSE [i \in DOMAIN df |-> Frac(0, 1)]
    /\ simPc' = "done"
    /\ UNCHANGED << df, dtype, columns, all_signals, k, in_position, entry_price,
                    valid_buy_signals, valid_sell_signals, stats, current_value,
                    pnl_data, accepted, tradeLog, raised >>
    /\ UNCHANGED << run, firstRun, sortResult >>
    /\ UNCHANGED notSimVars

\* the caller runs the function again on an identical frame, with an identical
\* signal column and the same indicator list
Rerun ==
    /\ simPc \in {"done", "error"}
    /\ run = 1
    /\ Len(df) <= MaxRerunBars
    /\ run' = 2
    /\ firstRun' = SimResult
    /\ raised' = NoError
    /\ cumulative_pnl' = << >>
    /\ simPc' = "validate"
    /\ all_signals' = << >>
    /\ k' = 1
    /\ in_position' = FALSE
    /\ entry_price' = 0
    /\ valid_buy_signals' = << >>
    /\ valid_sell_signals' = << >>
    /\ stats' = NoStats
    /\ current_value' = Frac(initial_investment, 1)
    /\ pnl_data' = << >>
    /\ accepted' = << >>
    /\ tradeLog' = << >>
    /\ UNCHANGED << df, dtype, columns, sortResult >>
    /\ UNCHANGED notSimVars

SimNext ==
    \/ ValidateIndicators
    \/ CollectSignals
    \/ ReplaySignal
    \/ PlaceMarkers
    \/ ComputeStats
    \/ ReplayPnl
    \/ FinishPnl
    \/ Rerun


(***************************************************************************)
(* The live session (the server side of the event stream)                  *)
(***************************************************************************)
Absent == NoValue

\* closes of the bars the live session polls
LivePrices == {1, 2}

\* trading_stats of a payload: an object, or missing
Stats(n) == [present |-> TRUE, total_trades |-> n]
NoStatsField == [present |-> FALSE, total_trades |-> 0]

\* one JSON object per event; json tells whether event.data parses, fig is
\* "absent", "figure" (a string that parses) or "garbage" (one that does not).
\* The session sends well-formed events, with the chart in each `update`
LiveEvent(status, price, position, pnl, tstats) ==
    [json |-> TRUE, status |-> status, price |-> price, current_position |-> position,
     total_pnl |-> pnl, trading_stats |-> tstats,
     fig |-> IF status = "update" THEN "figure" ELSE "absent"]

PlainEvent(status) == LiveEvent(status, Absent, Absent, Absent, NoStatsField)

StateEvent(status) ==
    LiveEvent(status, sessPrice, sessPosition, sessPnl, Stats(sessTrades))

\* an event is written to the stream; it reaches the client only while the
\* EventSource is open
Emit(ev) ==
    /\ sessLog' = Append(sessLog, ev)
    /\ sseQueue' = IF esState = "open" THEN Append(sseQueue, ev) ELSE sseQueue

\* variant: the next tick is scheduled by a timer, whether or not the last one is done
CanStartTickOnTimer(inFlight, stop) == ~stop

\* variant: the polling loop does not look at the stop flag
CanStartTickIgnoringStop(inFlight, stop) == ~inFlight

\* the next tick is scheduled only when the current one has completed, and the
\* stop flag is checked at the top of each tick
CanStartTick(inFlight, stop) == ~inFlight /\ ~stop

\* variant: the terminal event is written as soon as the stop flag is set
CanEmitStoppedAnyTime(state, inFlight, stop) == stop /\ state # "stopped"

\* the terminal event is written once the stop flag is seen and no tick runs
CanEmitStopped(state, inFlight, stop) == state = "ready" /\ stop /\ ~inFlight

LiveInit ==
    /\ sessState = "waiting"
    /\ tickInFlight = FALSE
    /\ stopFlag = FALSE
    /\ ticks = 0
    /\ initSent = 0
    /\ sessPrice = Absent
    /\ sessPosition = 0
    /\ sessEntry = 0
    /\ sessPnl = 0
    /\ sessTrades = 0
    /\ sessLog = << >>
    /\ sseQueue = << >>
    /\ esState = "connecting"
    /\ esRef = FALSE
    /\ isStoppingManually = FALSE
    /\ isStopped = FALSE
    /\ isInitialized = FALSE
    /\ isProcessing = FALSE
    /\ error = FALSE
    /\ currentPrice = Absent
    /\ currentPosition = 0
    /\ totalPnl = 0
    /\ tradingStats = NoStatsField
    /\ plotData = "none"
    /\ stopPc = "idle"
    /\ stopResponse = "none"
    /\ onStopCalls = 0

\* `initializing` while the data connection is set up and history is warmed up
SessInitializing ==
    /\ sessState = "initializing"
    /\ initSent < MaxInitEvents
    /\ initSent' = initSent + 1
    /\ Emit(PlainEvent("initializing"))
    /\ UNCHANGED << sessState, tickInFlight, stopFlag, ticks, sessPrice, sessPosition,
                    sessEntry, sessPnl, sessTrades >>
    /\ UNCHANGED clientVars
    /\ UNCHANGED notLiveVars

\* `ready`: the state machine is primed
SessReady ==
    /\ sessState = "initializing"
    /\ sessState' = "ready"
    /\ Emit(PlainEvent("ready"))
    /\ UNCHANGED << tickInFlight, stopFlag, ticks, initSent, sessPrice, sessPosition,
                    sessEntry, sessPnl, sessTrades >>
    /\ UNCHANGED clientVars
    /\ UNCHANGED notLiveVars

\* a polling tick starts: `processing`
TickStart ==
    /\ sessState = "ready"
    /\ CanStartTick(tickInFlight, stopFlag)
    /\ ticks < MaxTicks
    /\ ticks' = ticks + 1
    /\ tickInFlight' = TRUE
    /\ Emit(PlainEvent("processing"))
    /\ UNCHANGED << sessState, stopFlag, initSent, sessPrice, sessPosition, sessEntry,
                    sessPnl, sessTrades >>
    /\ UNCHANGED clientVars
    /\ UNCHANGED notLiveVars

\* the tick completes: the bar is evaluated, a transition runs the swap, and
\* `update` reflects the state after it
TickUpdate ==
    /\ sessState = "ready"
    /\ tickInFlight
    /\ \E p \in LivePrices, signal \in {"hold", "buy", "sell"} :
          /\ sessPrice' = p
          /\ IF signal = "buy" /\ sessPosition = 0
             THEN /\ sessPosition' = 1
                  /\ sessEntry' = p
                  /\ UNCHANGED << sessPnl, sessTrades >>
             ELSE IF signal = "sell" /\ sessPosition = 1
             THEN /\ sessPosition' = 0
                  /\ sessPnl' = sessPnl + (p - sessEntry)
                  /\ sessTrades' = sessTrades + 1
                  /\ UNCHANGED sessEntry
             ELSE UNCHANGED << sessPosition, sessEntry, sessPnl, sessTrades >>
          /\ Emit(LiveEvent("update", sessPrice', sessPosition', sessPnl',
                            Stats(sessTrades')))
    /\ tickInFlight' = FALSE
    /\ UNCHANGED << sessState, stopFlag, ticks, initSent >>
    /\ UNCHANGED clientVars
    /\ UNCHANGED notLiveVars

\* variant: a venue failure ends the session
TickErrorTerminates ==
    /\ sessState = "ready"
    /\ tickInFlight
    /\ tickInFlight' = FALSE
    /\ sessState' = "stopped"
    /\ Emit(PlainEvent("error"))
    /\ UNCHANGED << stopFlag, ticks, initSent, sessPrice, sessPosition, sessEntry, sessPnl,
                    sessTrades >>
    /\ UNCHANGED clientVars
    /\ UNCHANGED notLiveVars

\* the tick fails at the venue (pool absent, quote failure, swap revert):
\* `error`, and the session goes on
TickError ==
    /\ sessState = "ready"
    /\ tickInFlight
    /\ tickInFlight' = FALSE
    /\ Emit(PlainEvent("error"))
    /\ UNCHANGED << sessState, stopFlag, ticks, initSent, sessPrice, sessPosition,
                    sessEntry, sessPnl, sessTrades >>
    /\ UNCHANGED clientVars
    /\ UNCHANGED notLiveVars

\* a stop interrupts the wait of the tick in flight; nothing is emitted for it
TickInterrupted ==
    /\ sessState = "ready"
    /\ tickInFlight
    /\ stopFlag
    /\ tickInFlight' = FALSE
    /\ UNCHANGED << sessState, stopFlag, ticks, initSent, sessPrice, sessPosition,
                    sessEntry, sessPnl, sessTrades, sessLog, sseQueue >>
    /\ UNCHANGED clientVars
    /\ UNCHANGED notLiveVars

\* the terminal `stopped` event, with the final state
SessStopped ==
    /\ CanEmitStopped(sessState, tickInFlight, stopFlag)
    /\ sessState' = "stopped"
    /\ Emit(StateEvent("stopped"))
    /\ UNCHANGED << tickInFlight, stopFlag, ticks, initSent, sessPrice, sessPosition,
                    sessEntry, sessPnl, sessTrades >>
    /\ UNCHANGED clientVars
    /\ UNCHANGED notLiveVars

(***************************************************************************)
(* LiveTradeResults (the client of the event stream)                       *)
(***************************************************************************)
\* variant: handleStop leaves the stream as it is
EsAfterStopLeftOpen(es, ref) == es

\* if (eventSourceRef.current) eventSourceRef.current.close()
EsAfterStop(es, ref) == IF ref THEN "closed" ELSE es

\* JavaScript truthiness of a number field of the payload
Truthy(x) == x # Absent /\ x # 0

\* const eventSource = await strategy.createEventSource();
\* eventSourceRef.current = eventSource  (the request starts the session)
SetupDone ==
    /\ esState = "connecting"
    /\ ~esRef
    /\ esState' = "open"
    /\ esRef' = TRUE
    /\ sessState' = "initializing"
    /\ UNCHANGED << tickInFlight, stopFlag, ticks, initSent, sessPrice, sessPosition,
                    sessEntry, sessPnl, sessTrades, sessLog, sseQueue >>
    /\ UNCHANGED << isStoppingManually, isStopped, isInitialized, isProcessing, error,
                    currentPrice, currentPosition, totalPnl, tradingStats, plotData, stopPc,
                    stopResponse, onStopCalls >>
    /\ UNCHANGED notLiveVars

\* createEventSource rejects: catch (error) { if (!didCancel) setError(...) };
\* no stream is opened and no session is started
SetupFailed ==
    /\ esState = "connecting"
    /\ ~esRef
    /\ esState' = "closed"
    /\ error' = TRUE
    /\ UNCHANGED sessVars
    /\ UNCHANGED << esRef, isStoppingManually, isStopped, isInitialized, isProcessing,
                    currentPrice, currentPosition, totalPnl, tradingStats, plotData, stopPc,
                    stopResponse, onStopCalls >>
    /\ UNCHANGED notLiveVars

\* variant: the error box is rendered whenever error is set
ViewErrorFirst(err, stopped) ==
    IF err THEN "error" ELSE IF stopped THEN "stopped" ELSE "live"

\* what the component renders: if (error && !isStopped) the error box,
\* otherwise the session view, which shows the stopped state when isStopped
View(err, stopped) ==
    IF err /\ ~stopped THEN "error" ELSE IF stopped THEN "stopped" ELSE "live"

\* eventSource.onmessage, by update.status. JSON.parse(event.data) and
\* JSON.parse(update.fig) throw on text that does not parse; the catch around
\* the handler logs and returns, so the setters called before the throw have
\* taken effect and those after it have not
OnMessage ==
    /\ esState = "open"
    /\ sseQueue # << >>
    /\ LET update == Head(sseQueue)
           figThrows == update.fig = "garbage"
       IN  CASE ~update.json ->
                     UNCHANGED << isInitialized, isProcessing, isStopped, currentPrice,
                                  currentPosition, totalPnl, tradingStats, plotData >>
                [] update.json /\ update.status = "initializing" ->
                     /\ isInitialized' = FALSE
                     /\ UNCHANGED << isProcessing, isStopped, currentPrice,
                                     currentPosition, totalPnl, tradingStats, plotData >>
                [] update.json /\ update.status = "ready" ->
                     /\ isInitialized' = TRUE
                     /\ UNCHANGED << isProcessing, isStopped, currentPrice,
                                     currentPosition, totalPnl, tradingStats, plotData >>
                [] update.json /\ update.status = "processing" ->
                     /\ isInitialized' = TRUE
                     /\ isProcessing' = TRUE
                     /\ currentPrice' = IF Truthy(update.price) THEN update.price
                                                                ELSE currentPrice
                     /\ UNCHANGED << isStopped, currentPosition, totalPnl, tradingStats,
                                     plotData >>
                [] update.json /\ update.status = "update" ->
                     /\ isInitialized' = TRUE
                     /\ isProcessing' = FALSE
                     /\ plotData' = IF update.fig = "figure" THEN "figure" ELSE plotData
                     /\ IF figThrows
                        THEN UNCHANGED << tradingStats, currentPrice, currentPosition,
                                          totalPnl >>
                        ELSE /\ tradingStats' = IF update.trading_stats.present
                                                THEN update.trading_stats ELSE tradingStats
                             /\ currentPrice' = update.price
                             /\ currentPosition' = update.current_position
                             /\ totalPnl' = update.total_pnl
                     /\ UNCHANGED isStopped
                [] update.json /\ update.status = "stopped" ->
                     /\ isInitialized' = TRUE
                     /\ isProcessing' = FALSE
                     /\ isStopped' = TRUE
                     /\ currentPrice' = IF Truthy(update.price) THEN update.price
                                                                ELSE currentPrice
                     /\ currentPosition' = IF update.current_position # Absent
                                           THEN update.current_position
                                           ELSE currentPosition
                     /\ totalPnl' = IF update.total_pnl # Absent THEN update.total_pnl
                                                                 ELSE totalPnl
                     /\ plotData' = IF update.fig = "figure" THEN "figure" ELSE plotData
                     /\ tradingStats' = IF ~figThrows /\ update.trading_stats.present
                                        THEN update.trading_stats ELSE tradingStats
                [] OTHER ->
                     UNCHANGED << isInitialized, isProcessing, isStopped, currentPrice,
                                  currentPosition, totalPnl, tradingStats, plotData >>
    /\ sseQueue' = Tail(sseQueue)
    /\ UNCHANGED << sessState, tickInFlight, stopFlag, ticks, initSent, sessPrice,
                    sessPosition, sessEntry, sessPnl, sessTrades, sessLog >>
    /\ UNCHANGED << esState, esRef, isStoppingManually, error, stopPc, stopResponse,
                    onStopCalls >>
    /\ UNCHANGED notLiveVars

\* what can arrive as event.data: text that is not JSON, and an object of each
\* status with no fig, with a fig that parses and with one that does not
WirePayloads ==
    {[LiveEvent("none", Absent, Absent, Absent, NoStatsField) EXCEPT !.json = FALSE]}
        \cup {[LiveEvent(status, 2, 1, 1, Stats(1)) EXCEPT !.fig = f] :
                  status \in {"initializing", "ready", "processing", "update", "stopped",
                              "error"},
                  f \in {"absent", "figure", "garbage"}}

\* a message arrives on the open stream, whatever its text
DeliverRaw ==
    /\ esState = "open"
    /\ Len(sseQueue) < MaxQueue
    /\ \E m \in WirePayloads : sseQueue' = Append(sseQueue, m)
    /\ UNCHANGED << sessState, tickInFlight, stopFlag, ticks, initSent, sessPrice,
                    sessPosition, sessEntry, sessPnl, sessTrades, sessLog >>
    /\ UNCHANGED clientVars
    /\ UNCHANGED notLiveVars

\* eventSource.onerror: the connection failed or the server ended the stream
OnError ==
    /\ esState = "open"
    /\ IF isStoppingManually
       THEN /\ isStopped' = TRUE
            /\ isStoppingManually' = FALSE
            /\ UNCHANGED error
       ELSE /\ error' = TRUE
            /\ UNCHANGED << isStopped, isStoppingManually >>
    /\ esState' = "closed"
    /\ esRef' = FALSE
    /\ UNCHANGED sessVars
    /\ UNCHANGED << isInitialized, isProcessing, currentPrice, currentPosition, totalPnl,
                    tradingStats, plotData, stopPc, stopResponse, onStopCalls >>
    /\ UNCHANGED notLiveVars

\* handleStop up to `await stopTrade(...)`: the Stop button is rendered while
\* isStopped is false and no error is shown
HandleStop ==
    /\ stopPc = "idle"
    /\ ~isStopped
    /\ ~error
    /\ isStoppingManually' = TRUE
    /\ isStopped' = TRUE
    /\ esState' = EsAfterStop(esState, esRef)
    /\ stopPc' = "calling"
    /\ UNCHANGED sessVars
    /\ UNCHANGED << esRef, isInitialized, isProcessing, error, currentPrice,
                    currentPosition, totalPnl, tradingStats, plotData, stopResponse, onStopCalls >>
    /\ UNCHANGED notLiveVars

\* variant: the stop endpoint accepts only the first request of a session
StopEndpointOnce(state, flag) ==
    IF state = "waiting" \/ flag THEN {"refused", "httpError"} ELSE {"success"}

\* stop(sessionId) -> {success, message}: what the stop endpoint can answer.
\* A request for a session that exists is accepted ({success: true}) whether
\* or not a stop was requested before and whether or not the session has
\* already stopped; while no session exists the answer is {success: false}
\* or an HTTP error
StopEndpoint(state, flag) ==
    IF state = "waiting" THEN {"refused", "httpError"} ELSE {"success"}

\* stopTrade: POST /strategy/trade/{id}/stop. The request reaches the endpoint
\* and is answered, or fetch fails (network error); stopTrade throws on an
\* HTTP error and on a failed fetch, handleStop logs the outcome and goes on
StopTradeCall ==
    /\ stopPc = "calling"
    /\ \E r \in StopEndpoint(sessState, stopFlag) \cup {"networkError"} :
          /\ stopResponse' = r
          /\ IF r = "success"
             THEN /\ stopFlag' = TRUE
                  /\ sessLog' = IF stopFlag THEN sessLog
                                ELSE Append(sessLog, PlainEvent("stop-request"))
             ELSE UNCHANGED << stopFlag, sessLog >>
    /\ stopPc' = "callback"
    /\ UNCHANGED << sessState, tickInFlight, ticks, initSent, sessPrice, sessPosition,
                    sessEntry, sessPnl, sessTrades, sseQueue >>
    /\ UNCHANGED << esState, esRef, isStoppingManually, isStopped, isInitialized,
                    isProcessing, error, currentPrice, currentPosition, totalPnl,
                    tradingStats, plotData, onStopCalls >>
    /\ UNCHANGED notLiveVars

\* another caller of the stop endpoint asks the session to stop; a request
\* that finds the flag already set changes nothing
ExternalStop ==
    /\ sessState # "waiting"
    /\ ~stopFlag
    /\ stopFlag' = TRUE
    /\ sessLog' = Append(sessLog, PlainEvent("stop-request"))
    /\ UNCHANGED << sessState, tickInFlight, ticks, initSent, sessPrice, sessPosition,
                    sessEntry, sessPnl, sessTrades, sseQueue >>
    /\ UNCHANGED clientVars
    /\ UNCHANGED notLiveVars

\* if (onStop) onStop()
OnStopCallback ==
    /\ stopPc = "callback"
    /\ stopPc' = "done"
    /\ stopResponse' = "none"
    /\ onStopCalls' = onStopCalls + 1
    /\ UNCHANGED sessVars
    /\ UNCHANGED << esState, esRef, isStoppingManually, isStopped, isInitialized,
                    isProcessing, error, currentPrice, currentPosition, totalPnl,
                    tradingStats, plotData >>
    /\ UNCHANGED notLiveVars

LiveNext ==
    \/ SessInitializing
    \/ SessReady
    \/ TickStart
    \/ TickUpdate
    \/ TickError
    \/ TickInterrupted
    \/ SessStopped
    \/ SetupDone
    \/ SetupFailed
    \/ OnMessage
    \/ OnError
    \/ HandleStop
    \/ StopTradeCall
    \/ ExternalStop
    \/ OnStopCallback

(***************************************************************************)
(* LiveTradeResults: the effect that opens and closes the event stream      *)
(***************************************************************************)
Components == {"part_008", "part_009"}

\* strategy.strategy_id; 0 stands for a strategy without an id
StrategyIds == {0, 1, 2}

\* executeTrade: `new EventSource(url)` runs inside the call, so the stream
\* exists from the call on; the promise of the async function is fulfilled
\* with it, and the code after `await` runs later (pending until then).
\* didCancel is the flag of the effect run that made the call (part_008).
NewStream == [open |-> TRUE, pending |-> TRUE, didCancel |-> FALSE]

OpenStreams == {i \in DOMAIN streams : streams[i].open}
PendingStreams == {i \in DOMAIN streams : streams[i].pending}

FxInit ==
    /\ component \in Components
    /\ strategyId \in StrategyIds
    /\ fxPhase = "commit"
    /\ fxRuns = 0
    /\ hasRunOnce = FALSE
    /\ isConnecting = FALSE
    /\ currentStrategyId = 0
    /\ eventSourceRef = 0
    /\ fxStream = 0
    /\ streams = << >>

\* if (didCancel) { eventSource?.close(); return; } -- part_008 only; part_009
\* has no such test
SetupAborted(comp, stream) == comp = "part_008" /\ stream.didCancel

\* the body of the effect, run by React after the commit
EffectRun ==
    /\ fxPhase = "commit"
    /\ fxRuns < MaxEffectRuns
    /\ fxRuns' = fxRuns + 1
    /\ fxPhase' = "idle"
    /\ IF component = "part_008"
       THEN \* missing strategy or id: return cleanup; hasRunOnce: return cleanup;
            \* else hasRunOnce.current = true; setup()
            IF strategyId = 0 \/ hasRunOnce
            THEN /\ fxStream' = 0
                 /\ UNCHANGED << hasRunOnce, streams >>
            ELSE /\ hasRunOnce' = TRUE
                 /\ streams' = Append(streams, NewStream)
                 /\ fxStream' = Len(streams) + 1
       ELSE \* missing strategy or id, same id as before, or a connection under
            \* way or present: return cleanup; else setupTrading()
            IF \/ strategyId = 0
               \/ currentStrategyId = strategyId
               \/ isConnecting
               \/ eventSourceRef # 0
            THEN /\ fxStream' = 0
                 /\ UNCHANGED << hasRunOnce, streams >>
            ELSE /\ streams' = Append(streams, NewStream)
                 /\ fxStream' = Len(streams) + 1
                 /\ UNCHANGED hasRunOnce
    /\ currentStrategyId' =
          IF /\ component = "part_009"
             /\ strategyId # 0
             /\ currentStrategyId # strategyId
             /\ ~isConnecting
             /\ eventSourceRef = 0
          THEN strategyId ELSE currentStrategyId
    /\ isConnecting' =
          IF /\ component = "part_009"
             /\ strategyId # 0
             /\ currentStrategyId # strategyId
             /\ ~isConnecting
             /\ eventSourceRef = 0
          THEN TRUE ELSE isConnecting
    /\ UNCHANGED << component, strategyId, eventSourceRef >>
    /\ UNCHANGED notFxVars

\* the function the effect returned. part_008: didCancel = true for the run
\* that called setup, then cleanup(): hasRunOnce.current = false, close and
\* clear eventSourceRef.current. part_009: close and clear
\* eventSourceRef.current, isConnectingRef.current = false
Cleanup ==
    /\ streams' = [i \in DOMAIN streams |->
                      [streams[i] EXCEPT
                          !.open = IF i = eventSourceRef THEN FALSE ELSE @,
                          !.didCancel = IF component = "part_008" /\ i = fxStream
                                        THEN TRUE ELSE @]]
    /\ eventSourceRef' = 0
    /\ hasRunOnce' = IF component = "part_008" THEN FALSE ELSE hasRunOnce
    /\ isConnecting' = IF component = "part_009" THEN FALSE ELSE isConnecting
    /\ fxStream' = 0
    /\ UNCHANGED << component, currentStrategyId, fxRuns >>
    /\ UNCHANGED notFxVars

\* React Strict Mode: right after the first run of the effect, within the same
\* task, the cleanup runs and the effect is run again with the same props
StrictModeRemount ==
    /\ fxPhase = "idle"
    /\ fxRuns = 1
    /\ PendingStreams = DOMAIN streams
    /\ Cleanup
    /\ fxPhase' = "commit"
    /\ UNCHANGED strategyId

\* the parent renders the component with another strategy: the dependency
\* strategy?.strategy_id changed, so the cleanup runs and the effect is due
StrategyChange ==
    /\ fxPhase = "idle"
    /\ fxRuns < MaxEffectRuns
    /\ \E id \in StrategyIds \ {strategyId} : strategyId' = id
    /\ Cleanup
    /\ fxPhase' = "commit"

\* the component is unmounted: the cleanup runs, no effect follows
Unmount ==
    /\ fxPhase = "idle"
    /\ Cleanup
    /\ fxPhase' = "unmounted"
    /\ UNCHANGED strategyId

\* the code after `await strategy.createEventSource()` / `await
\* executeTrade(...)`: a microtask, so it never runs between a cleanup and the
\* effect run that follows it in the same commit; the promises were
\* fulfilled in the order of the calls
FactoryResolves ==
    /\ fxPhase # "commit"
    /\ PendingStreams # {}
    /\ LET i == CHOOSE p \in PendingStreams : \A q \in PendingStreams : p <= q
       IN  IF SetupAborted(component, streams[i])
           THEN /\ streams' = [streams EXCEPT ![i].pending = FALSE, ![i].open = FALSE]
                /\ UNCHANGED << eventSourceRef, isConnecting >>
           ELSE /\ streams' = [streams EXCEPT ![i].pending = FALSE]
                /\ eventSourceRef' = i
                /\ isConnecting' = IF component = "part_009" THEN FALSE
                                                             ELSE isConnecting
    /\ UNCHANGED << component, fxPhase, fxRuns, strategyId, hasRunOnce,
                    currentStrategyId, fxStream >>
    /\ UNCHANGED notFxVars

EffectNext ==
    \/ EffectRun
    \/ StrictModeRemount
    \/ StrategyChange
    \/ Unmount
    \/ FactoryResolves

(***************************************************************************)
(* Specifications                                                          *)
(***************************************************************************)
\* a subsystem that is not running keeps the state it is constructed with
SwapParked ==
    /\ chainAllowance = [t \in Tokens |-> 0]
    /\ chainDecimals = [t \in Tokens |-> UsdcDecimals]
    /\ SwapInit

SimParked ==
    /\ dtype = "int"
    /\ df = << >>
    /\ columns = {}
    /\ SimInit

FxParked ==
    /\ component = "part_008"
    /\ strategyId = 1
    /\ FxInit

SwapSpecInit == SwapInit /\ SimParked /\ LiveInit /\ FxParked
SimSpecInit == SimInit /\ SwapParked /\ LiveInit /\ FxParked
LiveSpecInit == LiveInit /\ SwapParked /\ SimParked /\ FxParked
EffectSpecInit == FxInit /\ SwapParked /\ SimParked /\ LiveInit

SwapSpec == SwapSpecInit /\ [][SwapNext]_vars

SimSpec == SimSpecInit /\ [][SimNext]_vars

LiveSpec == LiveSpecInit /\ [][LiveNext]_vars

\* the session and the requests that reach it: the steps of the session, the
\* request that starts it and the stop requests. What the client does with
\* the events it receives (OnMessage, OnError) changes nothing the session
\* reads, and is left out where only the session's progress is in question.
SessionNext ==
    \/ SessInitializing
    \/ SessReady
    \/ TickStart
    \/ TickUpdate
    \/ TickError
    \/ TickInterrupted
    \/ SessStopped
    \/ SetupDone
    \/ HandleStop
    \/ StopTradeCall
    \/ ExternalStop
    \/ OnStopCallback

\* the component on a stream that may carry any text: the messages come from
\* the wire instead of from the session
ClientNext ==
    \/ SetupDone
    \/ SetupFailed
    \/ DeliverRaw
    \/ OnMessage
    \/ OnError
    \/ HandleStop
    \/ StopTradeCall
    \/ OnStopCallback

ClientSpec == LiveSpecInit /\ [][ClientNext]_vars

EffectSpec == EffectSpecInit /\ [][EffectNext]_vars

\* the session's event loop keeps running: a tick in flight ends, and a stop
\* flag that is set gets seen
LiveFairSpec ==
    /\ LiveSpecInit
    /\ [][SessionNext]_vars
    /\ WF_vars(TickUpdate \/ TickError \/ TickInterrupted)
    /\ WF_vars(SessStopped)
    /\ WF_vars(SessReady)

(***************************************************************************)
(* Properties of the swap executor                                         *)
(***************************************************************************)
TxOps == {"approve", "swap"}
PrereqOps == {"getPair", "decimals", "allowance", "approve", "approveWait"}

HasEvent(op, res) == \E i \in DOMAIN swTrace : swTrace[i] = Event(op, res)
HasOp(op) == \E i \in DOMAIN swTrace : swTrace[i].op = op

\* C2: in both directions, when the factory reports no pool (zero address, or
\* the lookup fails) the call throws and neither an approve nor a swap
\* transaction is submitted; a swap or approve is only ever submitted in a
\* call whose first step was a pool check that found a pool.
C2_NoTxWithoutPool ==
    /\ (\E i \in DOMAIN swTrace : swTrace[i].op \in TxOps)
          => swTrace[1] = Event("getPair", "pair")
    /\ (Len(swTrace) > 0 /\ swTrace[1].op = "getPair" /\ swTrace[1].res # "pair")
          => /\ swOutcome = "thrown"
             /\ Len(swTrace) = 1
    /\ Len(swTrace) > 0 => swTrace[1].op = "getPair"

C2_Witness ==
    /\ swDir = "tok2eth"
    /\ swTrace = << Event("getPair", "zero") >>
    /\ swOutcome = "thrown"
    /\ swPc = "done"

\* C6 (as amended): the amountOutMin of the submitted swap is the quote times
\* the per-mille factor floor((1 - slippage/100) * 1000), divided by 1000 with
\* integer truncation; for a quote of 100 base units and 0.5% it is 99.
C6_MinOutTruncated ==
    swSentMinOut # NoValue =>
        /\ swQuote # NoValue
        /\ swSentMinOut = (swQuote * ((10000 - swSlippage) \div 10)) \div 1000
        /\ (swQuote = 100 /\ swSlippage = 50) => swSentMinOut = 99

C6_Witness ==
    /\ swSentMinOut = 99
    /\ swQuote = 100
    /\ swSlippage = 50
    /\ HasEvent("swap", "ok")

\* C6 (as claimed): the amountOutMin of the submitted swap equals
\* quotedOut * (1 - slippage/100); 99.5 for a quote of 100 and 0.5%.
C6_MinOutExactProduct ==
    swSentMinOut # NoValue =>
        swSentMinOut * 10000 = swQuote * (10000 - swSlippage)

\* C7: the quote behind the minimum-out bound is taken in the same call, after
\* every prerequisite step, and the swap submission follows it directly: no
\* transaction, confirmation wait or other call lies between them, and a call
\* never reaches the submission with a quote it did not take itself.
C7_FreshQuote ==
    /\ \A i \in DOMAIN swTrace :
          swTrace[i].op = "swap" =>
              /\ i > 1
              /\ swTrace[i - 1] = Event("getAmountsOut", "ok")
    /\ \A i, j \in DOMAIN swTrace :
          (swTrace[i].op = "getAmountsOut" /\ swTrace[j].op \in PrereqOps) => j < i
    /\ swPc = "swapSubmit" =>
          /\ swTrace[Len(swTrace)] = Event("getAmountsOut", "ok")
          /\ swQuote # NoValue
    /\ (swPc \notin {"idle", "done"} /\ ~HasOp("getAmountsOut")) => swQuote = NoValue

C7_Witness ==
    /\ swDir = "tok2eth"
    /\ swCalls = 2
    /\ HasEvent("approveWait", "success")
    /\ HasEvent("swap", "ok")

\* C8: a token->ETH swap reads the allowance before the quote and the swap,
\* and when the allowance read is below the amount an approval is submitted
\* and its confirmation has succeeded before the quote is taken; an ETH->token
\* swap never reads the allowance and never approves.
C8_AllowanceFirst ==
    /\ swDir = "eth2tok" =>
          \A i \in DOMAIN swTrace :
              swTrace[i].op \notin {"allowance", "approve", "approveWait"}
    /\ swDir = "tok2eth" =>
          \A i \in DOMAIN swTrace :
              swTrace[i].op \in {"getAmountsOut", "swap"} =>
                  /\ \E j \in 1 .. (i - 1) : swTrace[j] = Event("allowance", "ok")
                  /\ swAllowance # NoValue
                  /\ swAllowance < swAmountWei =>
                        \E a, w \in 1 .. (i - 1) :
                            /\ a < w
                            /\ swTrace[a] = Event("approve", "ok")
                            /\ swTrace[w] = Event("approveWait", "success")

C8_Witness ==
    /\ swDir = "tok2eth"
    /\ swAllowance # NoValue
    /\ swAllowance < swAmountWei
    /\ HasEvent("swap", "ok")

\* C9: when the approval fails (at submission or at confirmation) or the
\* quote reverts, the call throws and no swap transaction is submitted.
C9_FailureAborts ==
    (\/ HasEvent("approve", "error")
     \/ HasEvent("approveWait", "reverted")
     \/ HasEvent("approveWait", "error")
     \/ HasEvent("getAmountsOut", "error"))
        => /\ swOutcome = "thrown"
           /\ swPc \in {"done", "idle"}
           /\ ~HasOp("swap")

C9_Witness ==
    /\ HasEvent("approveWait", "reverted")
    /\ swOutcome = "thrown"

\* C10: a swap transaction that reverted on-chain makes the call throw; a
\* call that returns normally has a successfully confirmed swap behind it.
C10_RevertSurfaces ==
    /\ HasEvent("swapWait", "reverted") => swOutcome = "thrown"
    /\ swOutcome = "returned" => swTrace[Len(swTrace)] = Event("swapWait", "success")

C10_Witness ==
    /\ HasEvent("swapWait", "reverted")
    /\ swOutcome = "thrown"
    /\ swPc = "done"

\* C11: the caller learns an outcome of a call that submitted the swap
\* transaction only once the confirmation wait has completed: while the wait
\* is pending the call has neither returned nor thrown, and the last thing a
\* settled call did after a successful submission is that wait.
C11_OutcomeAfterWait ==
    /\ swPc = "swapWait" => (swOutcome = "none" /\ swTrace[Len(swTrace)] = Event("swap", "ok"))
    /\ (HasEvent("swap", "ok") /\ swOutcome # "none")
          => swTrace[Len(swTrace)].op = "swapWait"
    /\ \A i \in DOMAIN swTrace :
          swTrace[i] = Event("swap", "ok") => i >= Len(swTrace) - 1

\* both outcomes after a wait: a call that returned, and one that threw after
\* the provider failed during the wait
C11_Witness ==
    /\ swPc = "done"
    /\ swOutcome = "thrown"
    /\ swDir = "tok2eth"
    /\ HasEvent("swap", "ok")
    /\ swTrace[Len(swTrace)] = Event("swapWait", "error")

\* C12: the deadline of the submitted swap transaction is the submission time
\* plus the window of 300 seconds, however long the steps before it took.
C12_DeadlineFromSubmission ==
    swSentDeadline # NoValue => swSentDeadline = swSubmitTime + DeadlineWindow

(***************************************************************************)
(* Properties of the trade simulation                                      *)
(***************************************************************************)
Odd(n) == n % 2 = 1

\* C1: signals are replayed in timestamp order; a buy is accepted only while
\* no position is open and a sell only while one is open, so accepted buys
\* and sells strictly alternate, starting with a buy, in both replay loops:
\* the i-th buy is not later than the i-th sell, which is not later than the
\* (i+1)-th buy (bars that share a timestamp are replayed in either order).
C1_BuysAndSellsAlternate ==
    LET nb == Len(valid_buy_signals)
        ns == Len(valid_sell_signals)
    IN  /\ \A i, j \in DOMAIN all_signals :
              i < j => all_signals[i].datetime <= all_signals[j].datetime
        /\ \A i \in DOMAIN accepted : accepted[i] = IF Odd(i) THEN "buy" ELSE "sell"
        /\ simPc \in {"replay", "pnl"} => (in_position <=> Odd(Len(accepted)))
        /\ ns <= nb
        /\ nb <= ns + 1
        /\ simPc = "replay" => (in_position <=> nb = ns + 1)
        /\ \A i \in 1 .. ns :
              valid_buy_signals[i].datetime <= valid_sell_signals[i].datetime
        /\ \A i \in 1 .. (nb - 1) :
              valid_sell_signals[i].datetime <= valid_buy_signals[i + 1].datetime

\* a buy and a sell were accepted, a second buy and a second sell were refused
C1_Witness ==
    /\ simPc = "replay"
    /\ Len(all_signals) = 4
    /\ k = 5
    /\ Len(valid_buy_signals) = 1
    /\ Len(valid_sell_signals) = 1
    /\ all_signals[2].signal_type = "buy"

\* C3: each completed trade has as entry the close of the bar of its accepted
\* buy and as exit the close of the bar of its sell; the entry stored while a
\* position is open is that of the buy that opened it; and the i-th return
\* (and the i-th profit of the PNL replay) is (exit - entry) / entry * 100 of
\* the i-th trade.
C3_ReturnOfEachTrade ==
    /\ Len(tradeLog) = Len(valid_sell_signals)
    /\ \A i \in DOMAIN valid_buy_signals :
          \E j \in DOMAIN df :
              /\ df[j].datetime = valid_buy_signals[i].datetime
              /\ df[j].close = valid_buy_signals[i].close
              /\ df[j].sig = 1
    /\ \A i \in DOMAIN tradeLog :
          /\ tradeLog[i].entry = valid_buy_signals[i].close
          /\ tradeLog[i].exit = valid_sell_signals[i].close
          /\ \E j \in DOMAIN df :
                /\ df[j].datetime = valid_sell_signals[i].datetime
                /\ df[j].close = tradeLog[i].exit
    /\ (simPc = "replay" /\ in_position)
          => entry_price = valid_buy_signals[Len(valid_buy_signals)].close
    /\ stats.computed =>
          /\ Len(stats.returns) = Len(tradeLog)
          /\ \A i \in DOMAIN tradeLog :
                stats.returns[i].num * tradeLog[i].entry
                    = (tradeLog[i].exit - tradeLog[i].entry) * 100 * stats.returns[i].den
    /\ \A i \in DOMAIN pnl_data :
          pnl_data[i].profit.num * tradeLog[i].entry
              = (tradeLog[i].exit - tradeLog[i].entry) * 100 * pnl_data[i].profit.den

\* two trades with different returns, the first a buy at 1 and a sell at 2 on
\* the next bar (100 percent)
C3_Witness ==
    /\ simPc = "done"
    /\ stats.computed
    /\ Len(stats.returns) = 2
    /\ Len(pnl_data) = 2
    /\ tradeLog[1] = [entry |-> 1, exit |-> 2]
    /\ valid_sell_signals[1].datetime = valid_buy_signals[1].datetime + 1
    /\ stats.returns[1] = Frac(100, 1)
    /\ stats.returns[2].num < 0

FracEq(a, b) == a.num * b.den = b.num * a.den

\* the account value after the first n completed trades:
\* 1000 * (exit_1 / entry_1) * ... * (exit_n / entry_n)
RECURSIVE EquityAfter(_)
EquityAfter(n) ==
    IF n = 0 THEN Frac(1000, 1)
    ELSE FracMul(EquityAfter(n - 1), Frac(tradeLog[n].exit, tradeLog[n].entry))

\* the trades that have closed by time t
ClosedBy(t) ==
    Cardinality({i \in DOMAIN valid_sell_signals : valid_sell_signals[i].datetime <= t})

\* the bars are handed over with strictly increasing timestamps
Monotonic == \A i, j \in DOMAIN df : i < j => df[i].datetime < df[j].datetime

\* C13: the equity curve is 1000 on every bar before the first trade closes,
\* is multiplied by (1 + the trade's return) at the bar on which a trade
\* closes, and is held constant on every other bar: the value of a bar is
\* 1000 times the product of exit / entry of the trades closed by that bar.
C13_EquityCurve ==
    (simPc = "done" /\ cumulative_pnl # << >>)
        => \A j \in DOMAIN df :
              FracEq(cumulative_pnl[j], EquityAfter(ClosedBy(df[j].datetime)))

\* the sum of the return_pct of the first n trades of the log
RECURSIVE LogReturnSum(_)
LogReturnSum(n) ==
    IF n = 0 THEN Frac(0, 1)
    ELSE FracAdd(LogReturnSum(n - 1),
                 Frac((tradeLog[n].exit - tradeLog[n].entry) * 100, tradeLog[n].entry))

\* The part of C14 that holds: statistics are computed exactly for the runs
\* that complete with at least one closed trade; then total_return is the sum
\* of the return_pct of all trades of the log and avg_return is total_return
\* divided by their number. For an empty log no statistics are computed.
C14_ReturnTotals ==
    /\ stats.computed =>
          /\ Len(tradeLog) >= 1
          /\ Len(stats.returns) = Len(tradeLog)
          /\ FracEq(stats.total_return, LogReturnSum(Len(tradeLog)))
          /\ FracEq(stats.avg_return,
                    Frac(LogReturnSum(Len(tradeLog)).num,
                         LogReturnSum(Len(tradeLog)).den * Len(tradeLog)))
    /\ (simPc = "done" /\ Len(tradeLog) >= 1) => stats.computed
    /\ (simPc = "done" /\ Len(tradeLog) = 0) => stats = NoStats

\* two trades, the first at a loss and the second at a gain
C14_Witness ==
    /\ simPc = "done"
    /\ stats.computed
    /\ Len(tradeLog) = 2
    /\ tradeLog[1].exit < tradeLog[1].entry
    /\ tradeLog[2].exit > tradeLog[2].entry
    /\ stats.total_return.num # 0

\* C14: every run that completes has total_return equal to the sum of the
\* return_pct of the trades of its log and avg_return equal to total_return
\* divided by the number of trades, or 0 for an empty log.
C14_TotalsForEveryLog ==
    simPc = "done" =>
        /\ stats.computed
        /\ FracEq(stats.total_return, LogReturnSum(Len(tradeLog)))
        /\ FracEq(stats.avg_return,
                  IF Len(tradeLog) > 0
                  THEN Frac(LogReturnSum(Len(tradeLog)).num,
                            LogReturnSum(Len(tradeLog)).den * Len(tradeLog))
                  ELSE Frac(0, 1))

\* the trades of the log with return_pct > 0
Winners == {i \in DOMAIN tradeLog : tradeLog[i].exit > tradeLog[i].entry}

\* The part of C15 that holds: whenever statistics are computed (at least one
\* closed trade), total_trades is the number of completed trades (a position still
\* open at the end is not counted), profitable_trades is the number of trades
\* with return_pct > 0, win_rate is profitable_trades / total_trades * 100, and
\* 0 <= profitable_trades <= total_trades. For a log without trades no
\* statistics are computed.
C15_TradeCounts ==
    /\ stats.computed =>
          /\ stats.total_trades = Len(tradeLog)
          /\ stats.total_trades = Len(valid_sell_signals)
          /\ stats.total_trades >= 1
          /\ stats.profitable_trades = Cardinality(Winners)
          /\ 0 <= stats.profitable_trades
          /\ stats.profitable_trades <= stats.total_trades
          /\ FracEq(stats.win_rate,
                    Frac(Cardinality(Winners) * 100, Len(tradeLog)))
    /\ (simPc = "done" /\ ~stats.computed) => Len(tradeLog) = 0

\* one closed trade, which broke even, and a second position still open at
\* the end of the series
C15_Witness ==
    /\ simPc = "done"
    /\ stats.computed
    /\ stats.total_trades = 1
    /\ Len(valid_buy_signals) = 2
    /\ stats.profitable_trades = 0
    /\ tradeLog[1].exit = tradeLog[1].entry

\* C15: every run that completes has total_trades equal to the number of
\* completed trades, profitable_trades equal to the number of trades with
\* return_pct > 0 and win_rate equal to profitable_trades / total_trades * 100,
\* or 0 when there are no trades.
C15_CountsForEveryLog ==
    simPc = "done" =>
        /\ stats.computed
        /\ stats.total_trades = Len(tradeLog)
        /\ stats.profitable_trades = Cardinality(Winners)
        /\ FracEq(stats.win_rate,
                  IF Len(tradeLog) > 0
                  THEN Frac(Cardinality(Winners) * 100, Len(tradeLog))
                  ELSE Frac(0, 1))

\* C16: no trade has its entry and its exit on the same bar: a position
\* opened on a bar is closed on a later bar only.
C16_NoSameBarTrade ==
    \A i \in DOMAIN valid_sell_signals :
        valid_buy_signals[i].datetime < valid_sell_signals[i].datetime

\* C17: a bar series whose timestamps are not strictly increasing is rejected:
\* no signal of it is replayed and no trade log is produced.
C17_RejectsUnorderedBars ==
    ~Monotonic =>
        /\ simPc \in {"validate", "error"}
        /\ all_signals = << >>
        /\ tradeLog = << >>

\* C18: a run on bars that have the requested columns, on which no buy is
\* accepted (the empty series among them), raises nothing and completes with
\* zero trades.
C18_NoBuyCompletes ==
    (missing_indicators(columns) = << >> /\ valid_buy_signals = << >>)
        => (raised = NoError /\ simPc # "error")

\* C19: when a requested indicator column is missing the run ends in an error
\* that names every missing column, before any signal is evaluated or any
\* trade simulated; no other run ends in that error.
C19_MissingColumnFails ==
    LET absent == {indicators[i] : i \in DOMAIN indicators} \ columns
    IN  /\ absent # {} =>
              /\ simPc \in {"validate", "error"}
              /\ all_signals = << >>
              /\ valid_buy_signals = << >>
              /\ valid_sell_signals = << >>
              /\ tradeLog = << >>
              /\ stats = NoStats
              /\ pnl_data = << >>
              /\ cumulative_pnl = << >>
              /\ simPc = "error" =>
                    /\ raised.kind = "ValueError"
                    /\ {raised.names[i] : i \in DOMAIN raised.names} = absent
        /\ raised.kind = "ValueError" => (absent # {} /\ simPc = "error")

\* both requested columns are missing from a series of bars with signals
C19_Witness ==
    /\ simPc = "error"
    /\ columns = {}
    /\ Len(raised.names) = 2
    /\ Len(df) >= 2
    /\ \E i \in DOMAIN df : df[i].sig = 1

(***************************************************************************)
(* Properties of the live session                                          *)
(***************************************************************************)
StatusAt(i) == sessLog[i].status
Emitted(status) == \E i \in DOMAIN sessLog : StatusAt(i) = status

\* C4 (safety part): once a stop request is accepted no tick starts (no
\* `processing` follows it), `stopped` is emitted at most once, carries the
\* final price, position, PnL and statistics, and no event follows it.
C4_StopSafety ==
    /\ Cardinality({i \in DOMAIN sessLog : StatusAt(i) = "stopped"}) <= 1
    /\ \A i \in DOMAIN sessLog : StatusAt(i) = "stopped" => i = Len(sessLog)
    /\ \A i, j \in DOMAIN sessLog :
          (i < j /\ StatusAt(i) = "stop-request") => StatusAt(j) # "processing"
    /\ \A i \in DOMAIN sessLog :
          StatusAt(i) = "stopped" =>
              /\ sessLog[i].price = sessPrice
              /\ sessLog[i].current_position = sessPosition
              /\ sessLog[i].total_pnl = sessPnl
              /\ sessLog[i].trading_stats = Stats(sessTrades)
    /\ Emitted("stopped") => (stopFlag /\ ~tickInFlight /\ sessState = "stopped")

\* C4: a stop request halts polling and leads to the terminal `stopped`
\* event, which is emitted exactly once, with the final state, and is
\* followed by no `processing` or `update` event.
C4_StopEmitsStoppedOnce ==
    /\ []C4_StopSafety
    /\ ((stopFlag /\ sessState = "ready") ~> Emitted("stopped"))

\* a stop request arrived while a tick was in flight, after a completed tick
\* that closed a trade; `stopped` was emitted
C4_Witness ==
    /\ Emitted("stopped")
    /\ \E i, j \in DOMAIN sessLog :
          /\ i < j
          /\ StatusAt(i) = "processing"
          /\ StatusAt(j) = "stop-request"
          /\ j < Len(sessLog)
          /\ \A m \in (i + 1) .. (j - 1) : StatusAt(m) = "stop-request"
    /\ sessTrades = 1

\* C5: at most one polling tick is in flight: between two `processing` events
\* of the session lies the `update`, `error` or `stopped` that ended the first
\* tick, and a tick is in flight exactly from its `processing` to that event.
C5_OneTickInFlight ==
    /\ \A i, j \in DOMAIN sessLog :
          (i < j /\ StatusAt(i) = "processing" /\ StatusAt(j) = "processing")
              => \E m \in (i + 1) .. (j - 1) :
                     StatusAt(m) \in {"update", "error", "stopped"}
    /\ tickInFlight =>
          \E i \in DOMAIN sessLog :
              /\ StatusAt(i) = "processing"
              /\ \A m \in (i + 1) .. Len(sessLog) : StatusAt(m) = "stop-request"
    /\ Cardinality({i \in DOMAIN sessLog : StatusAt(i) = "processing"}) = ticks

C5_Witness ==
    /\ ticks = 2
    /\ tickInFlight
    /\ \E i \in DOMAIN sessLog : StatusAt(i) = "error"

\* the events the session has emitted, in order (the accepted stop requests,
\* which the log also records, are not events of the stream)
SessionEvents == SelectSeq(sessLog, LAMBDA ev : ev.status # "stop-request")

\* C20: the events of a session come in the order initializing*, ready,
\* (processing, update)*, stopped: only `initializing` events precede `ready`,
\* which is emitted once; no `processing` or `update` precedes `ready`; every
\* `update` directly follows the `processing` of its tick, and a tick starts
\* only after the event that ended the tick before it; `stopped` comes after
\* `ready` and nothing follows it.
C20_EventOrder ==
    LET evs == SessionEvents
        Before(i, status) == \E j \in 1 .. (i - 1) : evs[j].status = status
    IN  \A i \in DOMAIN evs :
            /\ evs[i].status \in {"initializing", "ready"} =>
                   \A j \in 1 .. (i - 1) : evs[j].status = "initializing"
            /\ evs[i].status \in {"processing", "update", "error", "stopped"} =>
                   Before(i, "ready")
            /\ evs[i].status = "update" => evs[i - 1].status = "processing"
            /\ evs[i].status = "processing" =>
                   evs[i - 1].status \in {"ready", "update", "error"}
            /\ evs[i].status = "stopped" => i = Len(evs)

\* a whole session: one warm-up message, `ready`, two complete ticks, the stop
C20_Witness ==
    /\ sessState = "stopped"
    /\ [i \in DOMAIN SessionEvents |-> SessionEvents[i].status]
          = << "initializing", "ready", "processing", "update", "processing",
               "update", "stopped" >>

\* C21: a stop request for a session that exists is answered {success: true}
\* and never with {success: false} or an error of the endpoint, also when a
\* stop was requested before and when the session has already stopped; such a
\* repeated request changes nothing in the session.
C21_StopIdempotent ==
    [][(stopPc = "calling" /\ stopPc' = "callback" /\ sessState # "waiting")
          => /\ stopResponse' \notin {"refused", "httpError"}
             /\ stopResponse' = "success" => stopFlag'
             /\ stopFlag => UNCHANGED sessVars]_vars

\* the second stop request of a session, answered {success: true}: the session
\* had already stopped on another caller's request (its `stopped` event was
\* sent before handleStop closed the stream)
C21_Witness ==
    /\ stopPc = "callback"
    /\ stopResponse = "success"
    /\ sessState = "stopped"
    /\ \E i \in DOMAIN sseQueue : sseQueue[i].status = "stopped"

\* C22: when the stream is lost and no stop has been requested, the component
\* shows the error state, which is not the stopped state; once handleStop has
\* been called the component shows the stopped state, whatever the order of
\* the stop request, the opening of the stream and its error callback, and a
\* stream that closes or fails after the manual stop sets no error.
C22_LossIsErrorStopIsStopped ==
    /\ [](stopPc # "idle" => View(error, isStopped) = "stopped")
    /\ [][(esState = "open" /\ esState' = "closed" /\ stopPc = "idle" /\ stopPc' = "idle"
                /\ ~stopFlag)
            => (error' /\ View(error', isStopped') = "error")]_vars
    /\ [][(esState = "open" /\ esState' = "closed" /\ stopPc # "idle")
            => (isStopped' /\ error' = error)]_vars

\* handleStop ran while the stream was still being set up; the stream then
\* opened and failed, and its error callback took the manual-stop branch
C22_Witness ==
    /\ stopPc # "idle"
    /\ sessState # "waiting"
    /\ esState = "closed"
    /\ ~isStoppingManually
    /\ isStopped
    /\ ~error

\* C23: a venue failure during a tick is emitted as an event of status `error`
\* in place of the tick's `update`, and does not end the session: after it the
\* session is ready for the next tick, only a stop request ever stops the
\* session, and the client that receives the `error` event neither closes the
\* stream nor leaves the live view.
C23_VenueErrorKeepsSession ==
    /\ [](LET evs == SessionEvents
          IN  /\ \A i \in DOMAIN evs :
                     evs[i].status = "error" =>
                         /\ evs[i - 1].status = "processing"
                         /\ i = Len(evs) => (sessState = "ready" /\ ~tickInFlight)
              /\ sessState = "stopped" => (stopFlag /\ evs[Len(evs)].status = "stopped"))
    /\ [][(sseQueue # << >> /\ sseQueue' = Tail(sseQueue)
                /\ Head(sseQueue).status = "error")
            => UNCHANGED << esState, esRef, error, isStopped, isInitialized,
                            isProcessing >>]_vars

\* a tick failed at the venue and the next tick ran to its `update`
C23_Witness ==
    /\ sessState = "ready"
    /\ ~stopFlag
    /\ [i \in DOMAIN SessionEvents |-> SessionEvents[i].status]
          = << "initializing", "ready", "processing", "error", "processing", "update" >>

\* C29: whatever the backend stop call yields (success, success: false, an
\* HTTP error, a failed request), handleStop closes the open stream in the
\* step that precedes the call, runs to its end without raising, and calls
\* onStop exactly once, after the call has settled.
C29_HandleStopCompletes ==
    /\ [](/\ onStopCalls = (IF stopPc = "done" THEN 1 ELSE 0)
          /\ stopPc = "callback" <=> stopResponse # "none"
          /\ stopPc = "callback" =>
                 stopResponse \in {"success", "refused", "httpError", "networkError"})
    /\ [][/\ (stopPc = "idle" /\ stopPc' # "idle") =>
                 (stopPc' = "calling" /\ (esState = "open" => esState' = "closed"))
          /\ (stopPc = "calling" /\ stopPc' # "calling") =>
                 (stopPc' = "callback" /\ onStopCalls' = 0)
          /\ (stopPc = "callback" /\ stopPc' # "callback") =>
                 (stopPc' = "done" /\ onStopCalls' = 1)
          /\ stopPc = "done" => stopPc' = "done"]_vars

\* the stop request never reached the session, which runs on; the stream was
\* closed and onStop was called
C29_Witness ==
    /\ stopPc = "done"
    /\ onStopCalls = 1
    /\ esState = "closed"
    /\ esRef
    /\ sessState = "ready"
    /\ ~stopFlag

\* C30: a message whose body, or whose fig, does not parse is dropped whole:
\* handling it changes no client state (price, position, total PnL,
\* statistics, plot, the initialized / processing / stopped flags), does not
\* close the stream and sets no error.
C30_MalformedDropped ==
    [][(esState = "open" /\ sseQueue # << >> /\ sseQueue' = Tail(sseQueue)
            /\ (~Head(sseQueue).json \/ Head(sseQueue).fig = "garbage"))
        => UNCHANGED << currentPrice, currentPosition, totalPnl, tradingStats, plotData,
                        isInitialized, isProcessing, isStopped, esState, error >>]_vars


\* C24: checkPairExists gives its caller false when the factory returns the
\* zero address, true when it returns any other address, and false again when
\* the factory lookup fails: it settles with a boolean for every answer of the
\* factory and never with an exception of its own.
C24_PairCheckNeverThrows ==
    /\ swPairExists \in {"unset", "true", "false"}
    /\ swPairExists = "unset" <=> swTrace = << >>
    /\ swTrace # << >> =>
          /\ swTrace[1].res = "zero" => swPairExists = "false"
          /\ swTrace[1].res = "pair" => swPairExists = "true"
          /\ swTrace[1].res = "error" => swPairExists = "false"

C24_Witness ==
    /\ swTrace = << Event("getPair", "error") >>
    /\ swPairExists = "false"
    /\ swOutcome = "thrown"
    /\ swCalls = 2

\* C25: once this.tokenDecimals holds a value for a token (pre-seeded, or
\* stored by an earlier successful lookup), a lookup for that token makes no
\* on-chain call and returns the stored value, whatever that value is; a
\* lookup whose on-chain call fails returns 18.
C25_DecimalsCached ==
    [][(swPc = "decimals" /\ swPc' # "decimals") =>
          /\ tokenDecimals[swToken] # NoValue =>
                /\ swTrace' = swTrace
                /\ swDecimals' = tokenDecimals[swToken]
          /\ swTrace' = Append(swTrace, Event("decimals", "error")) =>
                swDecimals' = DefaultDecimals]_vars

\* C28: in a token->ETH swap an approve transaction is submitted exactly when
\* the allowance read is strictly below the input amount, it approves exactly
\* the input amount, and whenever the swap transaction is submitted the
\* router's allowance for the token is at least the input amount.
C28_ApproveIffShort ==
    /\ (swDir = "tok2eth" /\ swAllowance # NoValue /\ swPc \notin {"allowance", "approveSubmit"})
          => (HasOp("approve") <=> swAllowance < swAmountWei)
    /\ HasOp("approve") =>
          /\ swDir = "tok2eth"
          /\ swApproved = swAmountWei
    /\ ~HasOp("approve") => swApproved = NoValue
    /\ (swDir = "tok2eth" /\ swPc = "swapSubmit") => chainAllowance[swToken] >= swAmountWei

C28_Witness ==
    /\ swDir = "tok2eth"
    /\ swPc = "swapSubmit"
    /\ swAllowance = 1
    /\ swAmountWei = 2
    /\ swApproved = 2
    /\ chainAllowance[swToken] = 2
    /\ swCalls = 2

\* a token->ETH swap that found the allowance sufficient and sent no approval
C28_WitnessNoApprove ==
    /\ swDir = "tok2eth"
    /\ swPc = "swapSubmit"
    /\ swAllowance = swAmountWei
    /\ ~HasOp("approve")

C27_OneOpenStream ==
    /\ Cardinality(OpenStreams) <= 1
    /\ fxPhase = "unmounted" => OpenStreams = {}

\* The part of C27 that holds for part_008 and fails for part_009: once no
\* completion of the factory is outstanding, at most one stream is open, it is
\* the one in eventSourceRef, and none is open after the unmount.
C27_OneOpenStreamOnceSettled ==
    PendingStreams = {} =>
        /\ OpenStreams \subseteq {eventSourceRef}
        /\ fxPhase = "unmounted" => OpenStreams = {}

============================================================================
